---- MODULE Spec2Model ----
(***************************************************************************)
(* XAudio2 sandbox (src/main.cpp): main() initialises Windows Media        *)
(* Foundation, decodes "test.mp3" into a byte vector (loadFile), creates   *)
(* the XAudio2 engine, a mastering voice and a source voice, submits one   *)
(* buffer, starts the voice, sleeps, destroys the mastering voice and      *)
(* shuts Media Foundation down.                                            *)
(*                                                                         *)
(* The program is sequential.  pc is the platform call main is about to    *)
(* make, status tells how the run stands.  Every platform call answers     *)
(* with a status chosen by the platform (ok \in BOOLEAN); calls is the     *)
(* history of the calls made, reads the history of the ReadSample results. *)
(***************************************************************************)
EXTENDS Integers, Sequences, FiniteSets, TLC

VARIABLES
  pc,              \* the platform call the program is about to make
  status,          \* "running", "thrown" (_com_error), "aborted" (assert), "returned"
  ndebug,          \* TRUE when the build defines NDEBUG (assert compiles to nothing)
  calls,           \* history: the platform calls made so far, [api, ok]
  nativeSubType,   \* the file: native subtype of its first audio stream
  wmf,             \* Media Foundation platform: "off", "started", "shutdown"
  readerConfiguration, \* initWMF's IMFAttributes: [created, lowLatency]
  reader,          \* the source reader: [open, selected, current]
  mediaType,       \* loadFile's local: the native media type [major, sub]
  subType,         \* loadFile's local GUID subType
  target,          \* loadFile's local target media type [major, sub]
  setTypeCalls,    \* number of SetCurrentMediaType calls made
  audioType,       \* loadFile's local: the current media type queried
  audioFile,       \* AudioFile [data, format, formatlength]
  reads,           \* history: the ReadSample results delivered, [ok, flags, data]
  sample,          \* loadFile's local IMFSample (its bytes)
  flags,           \* loadFile's local flags of the last ReadSample
  buffer,          \* loadFile's local IMFMediaBuffer: [data, locked]
  xaudio2,         \* the engine: "null" or "engine"
  masteringVoice,  \* "null", "voice", "destroyed"
  sourceVoice,     \* "null", "voice"
  sends,           \* the voices the source voice sends its output to
  xbuffer,         \* playVoice's XAUDIO2_BUFFER [AudioBytes, pAudioData]
  queued,          \* number of buffers submitted to the source voice
  started,         \* TRUE once Start succeeded on the source voice
  destroySenders   \* the set of voices sending to the mastering voice when
                   \* DestroyVoice was called on it ({"none"} before the call)

build == <<ndebug, nativeSubType>>
wmfVars == <<wmf, readerConfiguration>>
loadVars == <<reader, mediaType, subType, target, setTypeCalls, audioType,
              audioFile, reads, sample, flags, buffer>>
xaVars == <<xaudio2, masteringVoice, sourceVoice, sends, xbuffer, queued,
            started, destroySenders>>

vars == <<pc, status, calls, build, wmfVars, loadVars, xaVars>>

(***************************************************************************)
(* Bounds of the model.                                                    *)
(***************************************************************************)
MaxReads == 3        \* the reader ends the stream (or fails) by this read
MaxSampleLen == 1    \* bytes in one sample

ByteValues == {10, 20}

RECURSIVE SeqsUpTo(_, _)
SeqsUpTo(S, n) ==
  IF n = 0 THEN {<<>>}
  ELSE LET shorter == SeqsUpTo(S, n - 1)
       IN  shorter \cup {Append(s, b) : s \in {t \in shorter : Len(t) = n - 1}, b \in S}

Samples == SeqsUpTo(ByteValues, MaxSampleLen)

SubTypes == {"Float", "PCM", "MP3"}

ReaderFlags == {"ENDOFSTREAM", "CURRENTMEDIATYPECHANGED"}

NoType == [major |-> "none", sub |-> "none"]
NoFormat == [tag |-> "null"]

(***************************************************************************)
(* throwOnFail: a failed HRESULT ends the run with a _com_error; the       *)
(* result is the status of the run after the check.                        *)
(***************************************************************************)
throwOnFail_Ignore(ok) == "running"

throwOnFail(ok) == IF ok THEN "running" ELSE "thrown"

(***************************************************************************)
(* assert(cond): aborts a debug build when cond is false, does nothing in  *)
(* an NDEBUG build.                                                        *)
(***************************************************************************)
assertStatus(cond) == IF cond \/ ndebug THEN "running" ELSE "aborted"

Running == status = "running"

Log(api, ok) == calls' = Append(calls, [api |-> api, ok |-> ok])

\* The run after a step that leaves it in status st: it moves on to next when
\* still running and stays at the failing call otherwise.
Goto(st, next) ==
  /\ status' = st
  /\ pc' = IF st = "running" THEN next ELSE pc

Init ==
  /\ pc = "MFStartup"
  /\ status = "running"
  /\ ndebug \in BOOLEAN
  /\ calls = <<>>
  /\ nativeSubType \in SubTypes
  /\ wmf = "off"
  /\ readerConfiguration = [created |-> FALSE, lowLatency |-> FALSE]
  /\ reader = [open |-> FALSE, selected |-> FALSE, current |-> "none"]
  /\ mediaType = NoType
  /\ subType = "none"
  /\ target = NoType
  /\ setTypeCalls = 0
  /\ audioType = NoType
  /\ audioFile = [data |-> <<>>, format |-> NoFormat, formatlength |-> 0]
  /\ reads = <<>>
  /\ sample = <<>>
  /\ flags = {}
  /\ buffer = [data |-> <<>>, locked |-> FALSE]
  /\ xaudio2 = "null"
  /\ masteringVoice = "null"
  /\ sourceVoice = "null"
  /\ sends = {}
  /\ xbuffer = [AudioBytes |-> 0, pAudioData |-> "null"]
  /\ queued = 0
  /\ started = FALSE
  /\ destroySenders = {"none"}

(***************************************************************************)
(* initWMF                                                                 *)
(***************************************************************************)
MFStartup ==
  /\ Running /\ pc = "MFStartup"
  /\ \E ok \in BOOLEAN :
       /\ Log("MFStartup", ok)
       /\ wmf' = IF ok THEN "started" ELSE wmf
       /\ Goto(throwOnFail(ok), "MFCreateAttributes")
  /\ UNCHANGED <<build, readerConfiguration, loadVars, xaVars>>

MFCreateAttributes ==
  /\ Running /\ pc = "MFCreateAttributes"
  /\ \E ok \in BOOLEAN :
       /\ Log("MFCreateAttributes", ok)
       /\ readerConfiguration' =
            IF ok THEN [readerConfiguration EXCEPT !.created = TRUE]
            ELSE readerConfiguration
       /\ Goto(throwOnFail(ok), "SetLowLatency")
  /\ UNCHANGED <<build, wmf, loadVars, xaVars>>

SetLowLatency ==
  /\ Running /\ pc = "SetLowLatency"
  /\ \E ok \in BOOLEAN :
       /\ Log("SetUINT32", ok)
       /\ readerConfiguration' =
            IF ok THEN [readerConfiguration EXCEPT !.lowLatency = TRUE]
            ELSE readerConfiguration
       /\ Goto(throwOnFail(ok), "MFCreateSourceReaderFromURL")
  /\ UNCHANGED <<build, wmf, loadVars, xaVars>>

(***************************************************************************)
(* loadFile: the source reader is opened on the file and its first audio   *)
(* stream selected.                                                        *)
(***************************************************************************)
MFCreateSourceReaderFromURL ==
  /\ Running /\ pc = "MFCreateSourceReaderFromURL"
  /\ \E ok \in BOOLEAN :
       /\ Log("MFCreateSourceReaderFromURL", ok)
       /\ reader' = IF ok
                    THEN [open |-> TRUE, selected |-> TRUE, current |-> nativeSubType]
                    ELSE reader
       /\ Goto(throwOnFail(ok), "DeselectAllStreams")
  /\ UNCHANGED <<build, wmfVars, mediaType, subType, target, setTypeCalls,
                 audioType, audioFile, reads, sample, flags, buffer, xaVars>>

DeselectAllStreams ==
  /\ Running /\ pc = "DeselectAllStreams"
  /\ \E ok \in BOOLEAN :
       /\ Log("SetStreamSelection", ok)
       /\ reader' = IF ok THEN [reader EXCEPT !.selected = FALSE] ELSE reader
       /\ Goto(throwOnFail(ok), "SelectAudioStream")
  /\ UNCHANGED <<build, wmfVars, mediaType, subType, target, setTypeCalls,
                 audioType, audioFile, reads, sample, flags, buffer, xaVars>>

SelectAudioStream ==
  /\ Running /\ pc = "SelectAudioStream"
  /\ \E ok \in BOOLEAN :
       /\ Log("SetStreamSelection", ok)
       /\ reader' = IF ok THEN [reader EXCEPT !.selected = TRUE] ELSE reader
       /\ Goto(throwOnFail(ok), "GetNativeMediaType")
  /\ UNCHANGED <<build, wmfVars, mediaType, subType, target, setTypeCalls,
                 audioType, audioFile, reads, sample, flags, buffer, xaVars>>

GetNativeMediaType ==
  /\ Running /\ pc = "GetNativeMediaType"
  /\ \E ok \in BOOLEAN :
       /\ Log("GetNativeMediaType", ok)
       /\ mediaType' = IF ok THEN [major |-> "Audio", sub |-> nativeSubType]
                       ELSE mediaType
       /\ Goto(throwOnFail(ok), "GetMajorType")
  /\ UNCHANGED <<build, wmfVars, reader, subType, target, setTypeCalls,
                 audioType, audioFile, reads, sample, flags, buffer, xaVars>>

\* GetGUID(MF_MT_MAJOR_TYPE) and the assert that the file is an audio file.
GetMajorType ==
  /\ Running /\ pc = "GetMajorType"
  /\ \E ok \in BOOLEAN :
       /\ Log("GetGUID", ok)
       /\ Goto(IF throwOnFail(ok) = "running"
               THEN assertStatus(mediaType.major = "Audio")
               ELSE throwOnFail(ok),
               "GetSubType")
  /\ UNCHANGED <<build, wmfVars, loadVars, xaVars>>

(***************************************************************************)
(* loadFile: the reader is asked to decode when the file is compressed.    *)
(***************************************************************************)
NeedsDecode_Or(sub) == sub # "Float" \/ sub # "PCM"

NeedsDecode(sub) == sub # "Float" /\ sub # "PCM"

GetSubType ==
  /\ Running /\ pc = "GetSubType"
  /\ \E ok \in BOOLEAN :
       /\ Log("GetGUID", ok)
       /\ subType' = IF ok THEN mediaType.sub ELSE subType
       /\ Goto(throwOnFail(ok),
               IF NeedsDecode(subType') THEN "MFCreateMediaType"
               ELSE "GetCurrentMediaType")
  /\ UNCHANGED <<build, wmfVars, reader, mediaType, target, setTypeCalls,
                 audioType, audioFile, reads, sample, flags, buffer, xaVars>>

MFCreateMediaType ==
  /\ Running /\ pc = "MFCreateMediaType"
  /\ \E ok \in BOOLEAN :
       /\ Log("MFCreateMediaType", ok)
       /\ target' = IF ok THEN [major |-> "unset", sub |-> "unset"] ELSE target
       /\ Goto(throwOnFail(ok), "SetTargetMajorType")
  /\ UNCHANGED <<build, wmfVars, reader, mediaType, subType, setTypeCalls,
                 audioType, audioFile, reads, sample, flags, buffer, xaVars>>

SetTargetMajorType ==
  /\ Running /\ pc = "SetTargetMajorType"
  /\ \E ok \in BOOLEAN :
       /\ Log("SetGUID", ok)
       /\ target' = IF ok THEN [target EXCEPT !.major = "Audio"] ELSE target
       /\ Goto(throwOnFail(ok), "SetTargetSubType")
  /\ UNCHANGED <<build, wmfVars, reader, mediaType, subType, setTypeCalls,
                 audioType, audioFile, reads, sample, flags, buffer, xaVars>>

SetTargetSubType ==
  /\ Running /\ pc = "SetTargetSubType"
  /\ \E ok \in BOOLEAN :
       /\ Log("SetGUID", ok)
       /\ target' = IF ok THEN [target EXCEPT !.sub = "PCM"] ELSE target
       /\ Goto(throwOnFail(ok), "SetCurrentMediaType")
  /\ UNCHANGED <<build, wmfVars, reader, mediaType, subType, setTypeCalls,
                 audioType, audioFile, reads, sample, flags, buffer, xaVars>>

SetCurrentMediaType ==
  /\ Running /\ pc = "SetCurrentMediaType"
  /\ \E ok \in BOOLEAN :
       /\ Log("SetCurrentMediaType", ok)
       /\ setTypeCalls' = setTypeCalls + 1
       /\ reader' = IF ok THEN [reader EXCEPT !.current = target.sub] ELSE reader
       /\ Goto(throwOnFail(ok), "GetCurrentMediaType")
  /\ UNCHANGED <<build, wmfVars, mediaType, subType, target,
                 audioType, audioFile, reads, sample, flags, buffer, xaVars>>

(***************************************************************************)
(* loadFile: the wave format of the file comes from the reader's current   *)
(* media type.                                                             *)
(***************************************************************************)
GetCurrentMediaType ==
  /\ Running /\ pc = "GetCurrentMediaType"
  /\ \E ok \in BOOLEAN :
       /\ Log("GetCurrentMediaType", ok)
       /\ audioType' = IF ok THEN [major |-> "Audio", sub |-> reader.current]
                       ELSE audioType
       /\ Goto(throwOnFail(ok), "MFCreateWaveFormatEx")
  /\ UNCHANGED <<build, wmfVars, reader, mediaType, subType, target, setTypeCalls,
                 audioFile, reads, sample, flags, buffer, xaVars>>

\* MFCreateWaveFormatExFromMFMediaType: the format tag of a media subtype.
WaveFormat(type) ==
  [tag |-> CASE type.sub = "PCM" -> "WAVE_FORMAT_PCM"
             [] type.sub = "Float" -> "WAVE_FORMAT_IEEE_FLOAT"
             [] OTHER -> "WAVE_FORMAT_EXTENSIBLE"]

MFCreateWaveFormatEx ==
  /\ Running /\ pc = "MFCreateWaveFormatEx"
  /\ \E ok \in BOOLEAN :
       /\ Log("MFCreateWaveFormatExFromMFMediaType", ok)
       /\ audioFile' = IF ok
                       THEN [audioFile EXCEPT !.format = WaveFormat(audioType),
                                              !.formatlength = 18]
                       ELSE audioFile
       /\ Goto(throwOnFail(ok), "ReselectAudioStream")
  /\ UNCHANGED <<build, wmfVars, reader, mediaType, subType, target, setTypeCalls,
                 audioType, reads, sample, flags, buffer, xaVars>>

ReselectAudioStream ==
  /\ Running /\ pc = "ReselectAudioStream"
  /\ \E ok \in BOOLEAN :
       /\ Log("SetStreamSelection", ok)
       /\ reader' = IF ok THEN [reader EXCEPT !.selected = TRUE] ELSE reader
       /\ Goto(throwOnFail(ok), "ReadSample")
  /\ UNCHANGED <<build, wmfVars, mediaType, subType, target, setTypeCalls,
                 audioType, audioFile, reads, sample, flags, buffer, xaVars>>

(***************************************************************************)
(* loadFile: the read loop.  Each ReadSample delivers a status, flags and  *)
(* a sample; the reader ends the stream, changes the type or fails by its  *)
(* MaxReads-th read.                                                       *)
(***************************************************************************)
\* A failed read delivers nothing; a read at the end of the stream delivers no
\* sample; any other read delivers one, also the read that reports a change
\* of the media type.
ReadResults ==
  {[ok |-> FALSE, flags |-> {}, data |-> <<>>]}
  \cup {r \in [ok : {TRUE}, flags : SUBSET ReaderFlags, data : Samples] :
          "ENDOFSTREAM" \in r.flags => r.data = <<>>}

Ends(r) == ~r.ok \/ r.flags # {}

\* The two checks on the flags that leave the loop.
LoopBreaks_EndOnly(fl) == "ENDOFSTREAM" \in fl

LoopBreaks(fl) == "CURRENTMEDIATYPECHANGED" \in fl \/ "ENDOFSTREAM" \in fl

ReadSample ==
  /\ Running /\ pc = "ReadSample"
  /\ Len(reads) < MaxReads
  /\ \E r \in ReadResults :
       /\ Len(reads) = MaxReads - 1 => Ends(r)
       /\ Log("ReadSample", r.ok)
       /\ reads' = Append(reads, r)
       /\ flags' = IF r.ok THEN r.flags ELSE {}
       /\ sample' = IF r.ok THEN r.data ELSE sample
       /\ Goto(throwOnFail(r.ok),
               IF LoopBreaks(flags') THEN "CoInitializeEx"
               ELSE "ConvertToContiguousBuffer")
  /\ UNCHANGED <<build, wmfVars, reader, mediaType, subType, target, setTypeCalls,
                 audioType, audioFile, buffer, xaVars>>

ConvertToContiguousBuffer ==
  /\ Running /\ pc = "ConvertToContiguousBuffer"
  /\ \E ok \in BOOLEAN :
       /\ Log("ConvertToContiguousBuffer", ok)
       /\ buffer' = IF ok THEN [data |-> sample, locked |-> FALSE] ELSE buffer
       /\ Goto(throwOnFail(ok), "Lock")
  /\ UNCHANGED <<build, wmfVars, reader, mediaType, subType, target, setTypeCalls,
                 audioType, audioFile, reads, sample, flags, xaVars>>

\* The for loop over audioData: push_back of audioData[i] for i < audioDataSize.
RECURSIVE PushBytes(_, _, _, _)
PushBytes(data, audioData, audioDataSize, i) ==
  IF i < audioDataSize
  THEN PushBytes(Append(data, audioData[i + 1]), audioData, audioDataSize, i + 1)
  ELSE data

CopyBytes_DropLast(data, audioData) ==
  PushBytes(data, audioData, Len(audioData) - 1, 0)

CopyBytes(data, audioData) == PushBytes(data, audioData, Len(audioData), 0)

\* buffer->Lock and, when it succeeded, the copy of the locked bytes.
Lock ==
  /\ Running /\ pc = "Lock"
  /\ \E ok \in BOOLEAN :
       /\ Log("Lock", ok)
       /\ buffer' = IF ok THEN [buffer EXCEPT !.locked = TRUE] ELSE buffer
       /\ audioFile' =
            IF throwOnFail(ok) = "running"
            THEN [audioFile EXCEPT !.data = CopyBytes(audioFile.data, buffer.data)]
            ELSE audioFile
       /\ Goto(throwOnFail(ok), "Unlock")
  /\ UNCHANGED <<build, wmfVars, reader, mediaType, subType, target, setTypeCalls,
                 audioType, reads, sample, flags, xaVars>>

Unlock ==
  /\ Running /\ pc = "Unlock"
  /\ \E ok \in BOOLEAN :
       /\ Log("Unlock", ok)
       /\ buffer' = IF ok THEN [buffer EXCEPT !.locked = FALSE] ELSE buffer
       /\ Goto(throwOnFail(ok), "ReadSample")
  /\ UNCHANGED <<build, wmfVars, reader, mediaType, subType, target, setTypeCalls,
                 audioType, audioFile, reads, sample, flags, xaVars>>

(***************************************************************************)
(* initXAudio2, createMasteringVoice, createVoice                          *)
(***************************************************************************)
CoInitializeEx ==
  /\ Running /\ pc = "CoInitializeEx"
  /\ \E ok \in BOOLEAN :
       /\ Log("CoInitializeEx", ok)
       /\ Goto(throwOnFail(ok), "XAudio2Create")
  /\ UNCHANGED <<build, wmfVars, loadVars, xaVars>>

XAudio2Create ==
  /\ Running /\ pc = "XAudio2Create"
  /\ \E ok \in BOOLEAN :
       /\ Log("XAudio2Create", ok)
       /\ xaudio2' = IF ok THEN "engine" ELSE xaudio2
       /\ Goto(throwOnFail(ok), "CreateMasteringVoice")
  /\ UNCHANGED <<build, wmfVars, loadVars, masteringVoice, sourceVoice, sends,
                 xbuffer, queued, started, destroySenders>>

CreateMasteringVoice ==
  /\ Running /\ pc = "CreateMasteringVoice"
  /\ IF assertStatus(xaudio2 # "null") # "running"
     THEN /\ status' = "aborted"
          /\ UNCHANGED <<pc, calls, masteringVoice>>
     ELSE \E ok \in BOOLEAN :
            /\ Log("CreateMasteringVoice", ok)
            /\ masteringVoice' = IF ok THEN "voice" ELSE masteringVoice
            /\ Goto(throwOnFail(ok), "CreateSourceVoice")
  /\ UNCHANGED <<build, wmfVars, loadVars, xaudio2, sourceVoice, sends,
                 xbuffer, queued, started, destroySenders>>

\* CreateSourceVoice is given no send list: the new voice sends its output
\* to the mastering voice.
CreateSourceVoice ==
  /\ Running /\ pc = "CreateSourceVoice"
  /\ IF assertStatus(xaudio2 # "null" /\ audioFile.format # NoFormat) # "running"
     THEN /\ status' = "aborted"
          /\ UNCHANGED <<pc, calls, sourceVoice, sends>>
     ELSE \E ok \in BOOLEAN :
            /\ Log("CreateSourceVoice", ok)
            /\ sourceVoice' = IF ok THEN "voice" ELSE sourceVoice
            /\ sends' = IF ok THEN {"master"} ELSE sends
            /\ Goto(throwOnFail(ok), "SubmitSourceBuffer")
  /\ UNCHANGED <<build, wmfVars, loadVars, xaudio2, masteringVoice,
                 xbuffer, queued, started, destroySenders>>

(***************************************************************************)
(* playVoice                                                               *)
(***************************************************************************)
\* &file.data[0]: the bytes of the vector, and of an empty vector (reached
\* only when NDEBUG removed the assert) whatever the build makes of it.
DataPointers(data) == IF Len(data) > 0 THEN {"data"} ELSE {"null", "dangling"}

SubmitSourceBuffer_Retry ==
  /\ Running /\ pc = "SubmitSourceBuffer"
  /\ \E ok \in BOOLEAN, p \in DataPointers(audioFile.data) :
       /\ Log("SubmitSourceBuffer", ok)
       /\ xbuffer' = [AudioBytes |-> Len(audioFile.data), pAudioData |-> p]
       /\ queued' = IF ok THEN queued + 1 ELSE queued
       /\ status' = status
       /\ pc' = IF ok THEN "Start" ELSE pc
  /\ UNCHANGED <<build, wmfVars, loadVars, xaudio2, masteringVoice, sourceVoice,
                 sends, started, destroySenders>>

SubmitSourceBuffer ==
  /\ Running /\ pc = "SubmitSourceBuffer"
  /\ IF assertStatus(sourceVoice # "null" /\ Len(audioFile.data) > 0) # "running"
     THEN /\ status' = "aborted"
          /\ UNCHANGED <<pc, calls, xbuffer, queued>>
     ELSE \E ok \in BOOLEAN, p \in DataPointers(audioFile.data) :
            /\ Log("SubmitSourceBuffer", ok)
            /\ xbuffer' = [AudioBytes |-> Len(audioFile.data), pAudioData |-> p]
            /\ queued' = IF ok THEN queued + 1 ELSE queued
            /\ Goto(throwOnFail(ok), "Start")
  /\ UNCHANGED <<build, wmfVars, loadVars, xaudio2, masteringVoice, sourceVoice,
                 sends, started, destroySenders>>

\* voice->Start(): its HRESULT is dropped.
Start ==
  /\ Running /\ pc = "Start"
  /\ \E ok \in BOOLEAN :
       /\ Log("Start", ok)
       /\ started' = ok
  /\ pc' = "Sleep"
  /\ UNCHANGED <<status, build, wmfVars, loadVars, xaudio2, masteringVoice,
                 sourceVoice, sends, xbuffer, queued, destroySenders>>

(***************************************************************************)
(* main: the wait and the teardown                                         *)
(***************************************************************************)
Sleep ==
  /\ Running /\ pc = "Sleep"
  /\ pc' = "DestroyVoice"
  /\ UNCHANGED <<status, calls, build, wmfVars, loadVars, xaVars>>

\* masteringVoice->DestroyVoice() returns nothing; the platform leaves the
\* voice in the graph while another voice still sends to it.
DestroyVoice ==
  /\ Running /\ pc = "DestroyVoice"
  /\ Log("DestroyVoice", TRUE)
  /\ destroySenders' = IF sourceVoice = "voice" /\ "master" \in sends
                       THEN {"source"} ELSE {}
  /\ masteringVoice' = IF destroySenders' = {} THEN "destroyed" ELSE masteringVoice
  /\ pc' = "MFShutdown"
  /\ UNCHANGED <<status, build, wmfVars, loadVars, xaudio2, sourceVoice, sends,
                 xbuffer, queued, started>>

\* MFShutdown(): its HRESULT is dropped; main returns 0.
MFShutdown ==
  /\ Running /\ pc = "MFShutdown"
  /\ \E ok \in BOOLEAN :
       /\ Log("MFShutdown", ok)
       /\ wmf' = IF ok THEN "shutdown" ELSE wmf
  /\ pc' = "done"
  /\ status' = "returned"
  /\ UNCHANGED <<build, readerConfiguration, loadVars, xaVars>>

Next ==
  \/ MFStartup \/ MFCreateAttributes \/ SetLowLatency
  \/ MFCreateSourceReaderFromURL \/ DeselectAllStreams \/ SelectAudioStream
  \/ GetNativeMediaType \/ GetMajorType \/ GetSubType
  \/ MFCreateMediaType \/ SetTargetMajorType \/ SetTargetSubType
  \/ SetCurrentMediaType \/ GetCurrentMediaType \/ MFCreateWaveFormatEx
  \/ ReselectAudioStream
  \/ ReadSample \/ ConvertToContiguousBuffer \/ Lock \/ Unlock
  \/ CoInitializeEx \/ XAudio2Create \/ CreateMasteringVoice \/ CreateSourceVoice
  \/ SubmitSourceBuffer \/ Start \/ Sleep \/ DestroyVoice \/ MFShutdown

Spec == Init /\ [][Next]_vars

\* The program is one thread: a step that can be taken is taken.
LiveSpec == Spec /\ WF_vars(Next)

(***************************************************************************)
(* Vocabulary of the properties.                                           *)
(***************************************************************************)
CallsOf(api) == {i \in DOMAIN calls : calls[i].api = api}

Count(api) == Cardinality(CallsOf(api))

\* Call i was made after a successful call of api.
After(i, api) == \E j \in 1..(i - 1) : calls[j].api = api /\ calls[j].ok

\* The places of main after loadFile returned.
AfterLoadFile ==
  {"CoInitializeEx", "XAudio2Create", "CreateMasteringVoice", "CreateSourceVoice",
   "SubmitSourceBuffer", "Start", "Sleep", "DestroyVoice", "MFShutdown", "done"}

\* The places of the read loop.
InReadLoop ==
  /\ status = "running"
  /\ pc \in {"ReadSample", "ConvertToContiguousBuffer", "Lock", "Unlock"}

OneShotCalls ==
  {"MFStartup", "MFCreateSourceReaderFromURL", "XAudio2Create",
   "CreateMasteringVoice", "CreateSourceVoice", "SubmitSourceBuffer", "Start"}

AtMostOnce == \A api \in OneShotCalls : Count(api) <= 1

NoReissue ==
  \A i \in DOMAIN calls :
    ~calls[i].ok /\ calls[i].api \in OneShotCalls
      => \A j \in (i + 1)..Len(calls) : calls[j].api # calls[i].api

RECURSIVE ConcatUpTo(_, _)
ConcatUpTo(rs, k) == IF k = 0 THEN <<>> ELSE ConcatUpTo(rs, k - 1) \o rs[k].data

\* C1: whenever a platform call reports a failure, the run ends at that call
\* with a thrown _com_error, and no later platform call is made.
C1_EveryCallChecked ==
  \A i \in DOMAIN calls :
    ~calls[i].ok => i = Len(calls) /\ status = "thrown"

\* C2 (as stated): each one-shot call is made at most once, a failed call is
\* not made again, and every run that has ended submitted exactly one buffer.
C2_ExactlyOneBufferInEveryRun ==
  /\ AtMostOnce
  /\ NoReissue
  /\ status # "running" => queued = 1

\* C2 (amended): each one-shot call is made at most once, a failed call is not
\* made again, no run submits more than one buffer, and a run that reaches
\* the end of main submitted exactly one.
C2_OneShot ==
  /\ AtMostOnce
  /\ NoReissue
  /\ queued <= 1
  /\ status = "returned" => queued = 1

C2_Witness ==
  /\ status = "returned"
  /\ queued = 1
  /\ Count("SubmitSourceBuffer") = 1
  /\ Count("ReadSample") = 2

\* C3: loadFile starts only after initWMF succeeded, the mastering voice is
\* created only after the engine was, the source voice only after the
\* mastering voice exists and loadFile returned the file, the buffer is
\* submitted only after the source voice was created, and Start is called
\* only after the submission succeeded.
C3_Order ==
  \A i \in DOMAIN calls :
    /\ calls[i].api = "MFCreateSourceReaderFromURL"
         => After(i, "MFStartup") /\ After(i, "MFCreateAttributes")
            /\ After(i, "SetUINT32")
    /\ calls[i].api = "CreateMasteringVoice" => After(i, "XAudio2Create")
    /\ calls[i].api = "CreateSourceVoice"
         => /\ After(i, "CreateMasteringVoice")
            /\ masteringVoice = "voice"
            /\ \E j \in 1..(i - 1) :
                 /\ calls[j].api = "ReadSample" /\ calls[j].ok
                 /\ \A k \in (j + 1)..i : calls[k].api # "ReadSample"
            /\ reads # <<>> /\ reads[Len(reads)].flags # {}
    /\ calls[i].api = "SubmitSourceBuffer" => After(i, "CreateSourceVoice")
    /\ calls[i].api = "Start" => After(i, "SubmitSourceBuffer")

C3_Witness ==
  /\ Count("Start") = 1
  /\ pc = "Sleep"
  /\ queued = 1

\* C4: SetCurrentMediaType (to Audio/PCM) is called exactly when the native
\* subtype is neither Float nor PCM, and the stored format is the one of the
\* reader's current media type as queried after that decision.
C4_Decode ==
  /\ Count("GetCurrentMediaType") > 0
       => /\ setTypeCalls = Count("SetCurrentMediaType")
          /\ setTypeCalls = IF nativeSubType \in {"Float", "PCM"} THEN 0 ELSE 1
          /\ setTypeCalls = 1 => target = [major |-> "Audio", sub |-> "PCM"]
          /\ \A i \in CallsOf("GetCurrentMediaType") :
               \A j \in CallsOf("SetCurrentMediaType") : j < i
  /\ audioFile.format # NoFormat
       => /\ audioType.sub = reader.current
          /\ audioFile.format.tag =
               IF nativeSubType = "Float" THEN "WAVE_FORMAT_IEEE_FLOAT"
               ELSE "WAVE_FORMAT_PCM"

C4_Witness ==
  /\ nativeSubType = "MP3"
  /\ setTypeCalls = 1
  /\ audioFile.format = [tag |-> "WAVE_FORMAT_PCM"]

\* C5: the bytes loadFile returns are the samples read before the first
\* flagged read, whole and in read order; the flagged read adds nothing.
C5_Data ==
  pc \in AfterLoadFile =>
    \E k \in DOMAIN reads :
      /\ k = Len(reads)
      /\ reads[k].ok /\ reads[k].flags # {}
      /\ \A j \in 1..(k - 1) : ~Ends(reads[j])
      /\ audioFile.data = ConcatUpTo(reads, k - 1)

C5_Witness ==
  /\ pc \in AfterLoadFile
  /\ Len(audioFile.data) = 2
  /\ audioFile.data[1] # audioFile.data[2]
  /\ reads[Len(reads)].data # <<>>

\* C6: the read loop ends (loadFile returns or throws), and no ReadSample is
\* issued after the first flagged or failed one.
C6_LoopEnds ==
  /\ [](\A i \in DOMAIN reads : Ends(reads[i]) => i = Len(reads))
  /\ (InReadLoop ~> ~InReadLoop)

C6_Witness ==
  /\ pc \in AfterLoadFile
  /\ Len(reads) = MaxReads
  /\ reads[Len(reads)].flags = {"CURRENTMEDIATYPECHANGED"}

\* C7: when playVoice is entered the source voice is not null and file.data
\* is not empty, so the submitted buffer has AudioBytes = file.data.size() > 0.
C7_PlayVoiceAsserts ==
  /\ status = "running" /\ pc = "SubmitSourceBuffer"
       => sourceVoice # "null" /\ Len(audioFile.data) > 0
  /\ Count("SubmitSourceBuffer") > 0
       => xbuffer.AudioBytes = Len(audioFile.data) /\ xbuffer.AudioBytes > 0

\* C8: on a run without failures the mastering voice is destroyed, then
\* MFShutdown is called once, and when DestroyVoice is called no other voice
\* still sends to the mastering voice, so the voice leaves the graph.
C8_Teardown ==
  status = "returned" /\ (\A i \in DOMAIN calls : calls[i].ok)
    => /\ Count("DestroyVoice") = 1 /\ Count("MFShutdown") = 1
       /\ calls[Len(calls) - 1].api = "DestroyVoice"
       /\ calls[Len(calls)].api = "MFShutdown"
       /\ destroySenders = {}
       /\ masteringVoice = "destroyed"
====
